---------------------------- MODULE Spec2Model ----------------------------
(***************************************************************************)
(* A model of SU2Reader.py: the SU2 mesh parser (read_su2), the two        *)
(* boundary compactors (build_surface_compacted,                           *)
(* build_boundary_compacted_2d), the mesh builder (build_ugrid) and the    *)
(* reader object SU2MeshReader (SetFileName, RequestData).                 *)
(*                                                                         *)
(* A line of the file is a record [key, val, toks]:                        *)
(*   key = "%"              a comment line (the text starts with %),       *)
(*   key = "", toks = <<>>  a blank line,                                  *)
(*   key = "", toks # <<>>  a data line, toks its whitespace-separated     *)
(*                          fields (strings),                              *)
(*   any other key          a line "KEY= val".                             *)
(* Indices into lists are Python's (0-based); At(s, i) reads s[i].         *)
(***************************************************************************)
EXTENDS Integers, Sequences, FiniteSets, TLC

VARIABLES
  filename,   \* SU2MeshReader._filename ("" while unset)
  out0,       \* output port 0: the volume mesh
  out1,       \* output port 1: the boundary collection (a sequence of blocks)
  ret,        \* what the last RequestData did: "none", "0", "1", or the error raised
  file,       \* the lines of the mesh file on disk
  res,        \* function harness: what read_su2 returned (or raised)
  cm,         \* function harness: what the last compactor call returned
  pc          \* function harness: "init", "read", "compacted"

vars == <<filename, out0, out1, ret, file, res, cm, pc>>

---------------------------------------------------------------------------
(* Python values *)

None == -1

At(s, i) == s[i + 1]

\* s[a:b] for 0 <= a, b
Slice(s, a, b) ==
  LET hi == IF b < Len(s) THEN b ELSE Len(s)
  IN  IF a >= hi THEN <<>> ELSE [j \in 1..(hi - a) |-> s[a + j]]

\* s[a:]
SliceFrom(s, a) == Slice(s, a, Len(s))

Min(S) == CHOOSE x \in S : \A y \in S : x <= y

Range(s) == {s[j] : j \in 1..Len(s)}

\* The decimal numerals the model's files are written with.
Numerals ==
  <<"0", "1", "2", "3", "4", "5", "6", "7", "8", "9", "10", "11", "12",
    "13", "14", "15", "16">>

\* Whether int(s) / float(s) accepts the string s.
IsNumeral(s) ==
  \/ s = "-1"
  \/ s = "99"
  \/ \E n \in 1..Len(Numerals) : Numerals[n] = s

\* int(s) (and float(s)) of a string they accept.
int(s) ==
  IF s = "-1" THEN -1
  ELSE IF s = "99" THEN 99
  ELSE (CHOOSE n \in 1..Len(Numerals) : Numerals[n] = s) - 1

VTK_TYPE_MAP == [t \in {3, 5, 9, 10, 12, 13, 14} |-> t]

SU2_NNODES == (3 :> 2) @@ (5 :> 3) @@ (9 :> 4) @@ (10 :> 4) @@ (12 :> 8)
              @@ (13 :> 6) @@ (14 :> 5)

---------------------------------------------------------------------------
(* read_su2 *)

\* lines = [l.strip() for l in f if l.strip() and not l.startswith("%")]
KeepLine(l) == ~(l.key = "" /\ l.toks = <<>>) /\ l.key # "%"

FilterLines(raw) == SelectSeq(raw, KeepLine)

\* l.startswith(key)
startswith(l, key) == l.key = key

\* find(key): the index of the first line that starts with key, or None
find(lines, key) ==
  IF \E j \in 1..Len(lines) : startswith(lines[j], key)
  THEN Min({j \in 1..Len(lines) : startswith(lines[j], key)}) - 1
  ELSE None

\* l.split(): the whitespace-separated fields
split(l) == IF l.key = "" THEN l.toks ELSE <<l.key, l.val>>

\* What evaluating  int(lines[i].split("=")[1])  raises, "" when nothing
IntValueErr(lines, i) ==
  IF i >= Len(lines) THEN "IndexError"
  ELSE IF At(lines, i).key = "" THEN "IndexError"
  ELSE IF ~IsNumeral(At(lines, i).val) THEN "ValueError"
  ELSE ""

IntValue(lines, i) == int(At(lines, i).val)

\* What evaluating  list(map(int, lines[i].split()))  raises
IntFieldsErr(lines, i) ==
  IF i >= Len(lines) THEN "IndexError"
  ELSE IF \E t \in Range(split(At(lines, i))) : ~IsNumeral(t) THEN "ValueError"
  ELSE ""

IntFields(lines, i) ==
  LET f == split(At(lines, i)) IN [j \in 1..Len(f) |-> int(f[j])]

\* The first error a loop raises, errs[k] being what its k-th iteration
\* raises ("" when it completes)
FirstErr(errs) ==
  IF \E k \in 1..Len(errs) : errs[k] # ""
  THEN errs[Min({k \in 1..Len(errs) : errs[k] # ""})]
  ELSE ""

\* ---- NDIME ----
NdimeErr(lines) ==
  IF find(lines, "NDIME") = None THEN "NDIME not found"
  ELSE IntValueErr(lines, find(lines, "NDIME"))

Ndime(lines) == IntValue(lines, find(lines, "NDIME"))

\* ---- NPOIN ----
\* xyz = list(map(float, lines[i + 1 + k].split()[:ndime]))
PointFields(lines, i, ndime) == Slice(split(At(lines, i)), 0, ndime)

\* pts[k, :ndime] = xyz  assigns into a row slice of min(ndime, 3) entries;
\* numpy broadcasts a one-element xyz and refuses any other length mismatch.
PointRowErr(lines, i, ndime) ==
  IF i >= Len(lines) THEN "IndexError"
  ELSE LET xyz  == PointFields(lines, i, ndime)
           room == IF ndime < 3 THEN ndime ELSE 3
       IN  IF \E t \in Range(xyz) : ~IsNumeral(t) THEN "ValueError"
           ELSE IF Len(xyz) # room /\ Len(xyz) # 1 THEN "ValueError"
           ELSE ""

\* PointRow with the unused coordinate copied from the line when the line
\* has one, where it is to stay 0
PointRowUnpadded(lines, i, ndime) ==
  LET xyz == PointFields(lines, i, ndime)
      all == split(At(lines, i))
  IN  [c \in 1..3 |->
         IF c > ndime THEN (IF Len(all) >= c THEN int(all[c]) ELSE 0)
         ELSE IF Len(xyz) = 1 THEN int(xyz[1])
         ELSE int(xyz[c])]

PointRow(lines, i, ndime) ==
  LET xyz == PointFields(lines, i, ndime)
  IN  [c \in 1..3 |->
         IF c > ndime THEN 0
         ELSE IF Len(xyz) = 1 THEN int(xyz[1])
         ELSE int(xyz[c])]

PointsErr(lines, ndime) ==
  LET i == find(lines, "NPOIN") IN
  IF i = None THEN "NPOIN not found"
  ELSE IF IntValueErr(lines, i) # "" THEN IntValueErr(lines, i)
  ELSE IF IntValue(lines, i) < 0 THEN "ValueError"   \* np.zeros((npoin, 3))
  ELSE FirstErr([k \in 1..IntValue(lines, i) |->
                    PointRowErr(lines, i + k, ndime)])

Points(lines, ndime) ==
  LET i == find(lines, "NPOIN") IN
  [k \in 1..IntValue(lines, i) |-> PointRow(lines, i + k, ndime)]

\* ---- NELEM ----
\* The connectivity the volume loop takes from one element line
VolConn(parts, ndime) ==
  IF ndime = 2 /\ parts[1] \in DOMAIN SU2_NNODES
  THEN Slice(parts, 1, 1 + SU2_NNODES[parts[1]])
  ELSE SliceFrom(parts, 1)

\* VolKeep with line elements refused as volume elements
VolKeepNoLines(parts) == parts[1] \in DOMAIN VTK_TYPE_MAP \ {3}

VolKeep(parts) == parts[1] \in DOMAIN VTK_TYPE_MAP

ElemsErr(lines, ndime) ==
  LET i == find(lines, "NELEM") IN
  IF i = None THEN ""
  ELSE IF IntValueErr(lines, i) # "" THEN IntValueErr(lines, i)
  ELSE FirstErr([k \in 1..IntValue(lines, i) |->
                    IntFieldsErr(lines, i + k)])

\* The element lines of the NELEM section, as parsed, in file order
VolParts(lines) ==
  LET i == find(lines, "NELEM") IN
  IF i = None \/ IntValue(lines, i) < 0 THEN <<>>
  ELSE [k \in 1..IntValue(lines, i) |-> IntFields(lines, i + k)]

vol_conns(lines, ndime) ==
  LET kept == SelectSeq(VolParts(lines), VolKeep)
  IN  [j \in 1..Len(kept) |-> VolConn(kept[j], ndime)]

vol_ctypes(lines) ==
  LET kept == SelectSeq(VolParts(lines), VolKeep)
  IN  [j \in 1..Len(kept) |-> VTK_TYPE_MAP[kept[j][1]]]

\* ---- NMARK ----
\* MarkerElem cutting the line whatever NDIME is
MarkerElemAlwaysCut(e, ndime) ==
  IF e # <<>> /\ e[1] \in DOMAIN SU2_NNODES
  THEN Slice(e, 0, 1 + SU2_NNODES[e[1]])
  ELSE e

\* One marker element line as the marker loop stores it
MarkerElem(e, ndime) ==
  IF ndime = 2 /\ e # <<>> /\ e[1] \in DOMAIN SU2_NNODES
  THEN Slice(e, 0, 1 + SU2_NNODES[e[1]])
  ELSE e

\* markers[tag] = elems  on an insertion-ordered dict, kept as a sequence
\* of [tag, elems]: a tag already present keeps its place and takes the
\* new value.
DictSet(markers, tag, elems) ==
  IF \E j \in 1..Len(markers) : markers[j].tag = tag
  THEN [j \in 1..Len(markers) |->
          IF markers[j].tag = tag THEN [tag |-> tag, elems |-> elems]
          ELSE markers[j]]
  ELSE Append(markers, [tag |-> tag, elems |-> elems])

\* What reading the tag line at p raises: tag = lines[p].split("=")[1].strip()
TagErr(lines, p) ==
  IF p >= Len(lines) THEN "IndexError"
  ELSE IF At(lines, p).key = "" THEN "IndexError"
  ELSE ""

\* The marker loop from line p on, with `left` markers still to read:
\* [err, markers]
RECURSIVE MarkerLoop(_, _, _, _, _)
MarkerLoop(lines, ndime, p, left, markers) ==
  IF left <= 0 THEN [err |-> "", markers |-> markers]
  ELSE IF TagErr(lines, p) # "" THEN [err |-> TagErr(lines, p), markers |-> <<>>]
  ELSE IF IntValueErr(lines, p + 1) # ""
       THEN [err |-> IntValueErr(lines, p + 1), markers |-> <<>>]
  ELSE LET tag == At(lines, p).val
           ne  == IntValue(lines, p + 1)
           n   == IF ne < 0 THEN 0 ELSE ne
           errs == [k \in 1..n |-> IntFieldsErr(lines, p + 1 + k)]
       IN  IF FirstErr(errs) # ""
           THEN [err |-> FirstErr(errs), markers |-> <<>>]
           ELSE MarkerLoop(lines, ndime, p + 2 + n, left - 1,
                  DictSet(markers, tag,
                    [k \in 1..n |->
                       MarkerElem(IntFields(lines, p + 1 + k), ndime)]))

\* MarkersRead taking a file without NMARK as one without markers
MarkersReadOptional(lines, ndime) ==
  LET i == find(lines, "NMARK") IN
  IF i = None THEN [err |-> "", markers |-> <<>>]
  ELSE IF IntValueErr(lines, i) # ""
       THEN [err |-> IntValueErr(lines, i), markers |-> <<>>]
  ELSE MarkerLoop(lines, ndime, i + 1, IntValue(lines, i), <<>>)

MarkersRead(lines, ndime) ==
  LET i == find(lines, "NMARK") IN
  IF i = None THEN [err |-> "NMARK not found", markers |-> <<>>]
  ELSE IF IntValueErr(lines, i) # ""
       THEN [err |-> IntValueErr(lines, i), markers |-> <<>>]
  ELSE MarkerLoop(lines, ndime, i + 1, IntValue(lines, i), <<>>)

\* What read_su2 gives when it raises: the error and nothing else
Raise(e) ==
  [err |-> e, ndime |-> 0, pts |-> <<>>, vol_conns |-> <<>>,
   vol_ctypes |-> <<>>, markers |-> <<>>]

read_su2(raw) ==
  LET lines == FilterLines(raw) IN
  IF NdimeErr(lines) # "" THEN Raise(NdimeErr(lines))
  ELSE LET ndime == Ndime(lines) IN
  IF PointsErr(lines, ndime) # "" THEN Raise(PointsErr(lines, ndime))
  ELSE IF ElemsErr(lines, ndime) # "" THEN Raise(ElemsErr(lines, ndime))
  ELSE IF MarkersRead(lines, ndime).err # ""
       THEN Raise(MarkersRead(lines, ndime).err)
  ELSE [err |-> "", ndime |-> ndime, pts |-> Points(lines, ndime),
        vol_conns |-> vol_conns(lines, ndime),
        vol_ctypes |-> vol_ctypes(lines),
        markers |-> MarkersRead(lines, ndime).markers]

---------------------------------------------------------------------------
(* build_ugrid and the compactors *)

\* The grid build_ugrid makes: the points, and one cell per (conn, ctype)
\* pair of zip(conns, ctypes); _strip_arrays leaves it without data arrays.
build_ugrid(points, conns, ctypes) ==
  LET n == IF Len(conns) < Len(ctypes) THEN Len(conns) ELSE Len(ctypes)
  IN  [status |-> "grid",
       points |-> points,
       cells  |-> [j \in 1..n |-> [conn |-> conns[j], ctype |-> ctypes[j]]]]

\* What a compactor gives when it returns None, and when it raises
NoGrid == [status |-> "None", points |-> <<>>, cells |-> <<>>]

GridError(e) == [status |-> e, points |-> <<>>, cells |-> <<>>]

\* sorted(used)
RECURSIVE sorted(_)
sorted(S) ==
  IF S = {} THEN <<>> ELSE <<Min(S)>> \o sorted(S \ {Min(S)})

\* old2new leaving every index as it is
old2newIdentity(used, n) == n

\* old2new = {o: i for i, o in enumerate(used)}, looked up at n
old2new(used, n) == (CHOOSE j \in 1..Len(used) : used[j] = n) - 1

\* numpy's global_pts[idx]: a negative index counts from the end
PyIndexOk(pts, idx) == -Len(pts) <= idx /\ idx < Len(pts)

PyIndex(pts, idx) == IF idx < 0 THEN pts[Len(pts) + idx + 1] ELSE pts[idx + 1]

\* The tail both compactors share once conns and ctypes are collected
Compact(global_pts, conns, ctypes) ==
  IF conns = <<>> THEN NoGrid
  ELSE LET used == sorted(UNION {Range(conns[j]) : j \in 1..Len(conns)}) IN
       IF \E o \in Range(used) : ~PyIndexOk(global_pts, o)
       THEN GridError("IndexError")      \* global_pts[used, :]
       ELSE build_ugrid(
              [r \in 1..Len(used) |-> PyIndex(global_pts, used[r])],
              [j \in 1..Len(conns) |->
                 [c \in 1..Len(conns[j]) |-> old2new(used, conns[j][c])]],
              ctypes)

\* SurfaceKeeps without the quads
SurfaceKeepsTriangles(e) == e # <<>> /\ e[1] = 5

SurfaceKeeps(e) == e # <<>> /\ e[1] \in {5, 9}

build_surface_compacted(global_pts, elems) ==
  LET kept == SelectSeq(elems, SurfaceKeeps)
  IN  Compact(global_pts,
              [j \in 1..Len(kept) |-> SliceFrom(kept[j], 1)],
              [j \in 1..Len(kept) |-> VTK_TYPE_MAP[kept[j][1]]])

Boundary2dKeeps(e) == e # <<>> /\ e[1] = 3 /\ Len(Slice(e, 1, 3)) = 2

build_boundary_compacted_2d(global_pts, elems) ==
  LET kept == SelectSeq(elems, Boundary2dKeeps)
  IN  Compact(global_pts,
              [j \in 1..Len(kept) |-> Slice(kept[j], 1, 3)],
              [j \in 1..Len(kept) |-> VTK_TYPE_MAP[3]])

---------------------------------------------------------------------------
(* SU2MeshReader *)

\* The compactor RequestData calls for one marker
MarkerSurface(ndime, pts, elems) ==
  IF ndime = 2 THEN build_boundary_compacted_2d(pts, elems)
  ELSE build_surface_compacted(pts, elems)

BlockName(tag) == "marker:" \o tag

\* Blocks ending the loop at the first marker without a surface
RECURSIVE BlocksUntilNone(_, _, _)
BlocksUntilNone(ndime, pts, markers) ==
  IF markers = <<>> THEN <<>>
  ELSE LET surf == MarkerSurface(ndime, pts, Head(markers).elems)
       IN  IF surf.status = "None" THEN <<>>
           ELSE <<[name |-> BlockName(Head(markers).tag), grid |-> surf]>>
                \o BlocksUntilNone(ndime, pts, Tail(markers))

\* The blocks list RequestData collects: one (tag, surf) per marker whose
\* surf is not None, in the order of markers.items()
RECURSIVE Blocks(_, _, _)
Blocks(ndime, pts, markers) ==
  IF markers = <<>> THEN <<>>
  ELSE LET surf == MarkerSurface(ndime, pts, Head(markers).elems)
           rest == Blocks(ndime, pts, Tail(markers))
       IN  IF surf.status = "None" THEN rest
           ELSE <<[name |-> BlockName(Head(markers).tag), grid |-> surf]>>
                \o rest

\* Whether the marker loop raises
BlocksRaise(ndime, pts, markers) ==
  \E j \in 1..Len(markers) :
     MarkerSurface(ndime, pts, markers[j].elems).status = "IndexError"

EmptyGrid == [status |-> "grid", points |-> <<>>, cells |-> <<>>]

\* SetFileName(fname); Modified() only tells the host to run RequestData
\* again, which the host may do at any time here.
SetFileName(fname) ==
  /\ filename' = IF fname # filename THEN fname ELSE filename
  /\ UNCHANGED <<out0, out1, ret, file, res, cm, pc>>

\* RequestData emptying both outputs before it reads the file
RequestDataClearsFirst ==
  /\ UNCHANGED <<filename, file, res, cm, pc>>
  /\ IF filename = ""
     THEN ret' = "0" /\ UNCHANGED <<out0, out1>>
     ELSE \E r \in {read_su2(file)} :
          IF r.err # ""
          THEN ret' = r.err /\ out0' = EmptyGrid /\ out1' = <<>>
          ELSE /\ out0' = build_ugrid(r.pts, r.vol_conns, r.vol_ctypes)
               /\ IF BlocksRaise(r.ndime, r.pts, r.markers)
                  THEN ret' = "IndexError in marker loop" /\ out1' = out1
                  ELSE ret' = "1" /\ out1' = Blocks(r.ndime, r.pts, r.markers)

\* RequestData: nothing is written before read_su2 returns; output 0 is
\* written before the marker loop runs, output 1 after it.
RequestData ==
  /\ UNCHANGED <<filename, file, res, cm, pc>>
  /\ IF filename = ""
     THEN ret' = "0" /\ UNCHANGED <<out0, out1>>
     ELSE \E r \in {read_su2(file)} :
          IF r.err # ""
          THEN ret' = r.err /\ UNCHANGED <<out0, out1>>
          ELSE /\ out0' = build_ugrid(r.pts, r.vol_conns, r.vol_ctypes)
               /\ IF BlocksRaise(r.ndime, r.pts, r.markers)
                  THEN ret' = "IndexError in marker loop" /\ out1' = out1
                  ELSE ret' = "1" /\ out1' = Blocks(r.ndime, r.pts, r.markers)

---------------------------------------------------------------------------
(* The mesh files the model reads *)

MaxPts == 4       \* points of a file
MaxElems == 2     \* element lines of a section
MaxMarkers == 2   \* markers of a file

KV(key, val) == [key |-> key, val |-> val, toks |-> <<>>]
Data(toks) == [key |-> "", val |-> "", toks |-> toks]
Comment == [key |-> "%", val |-> "", toks |-> <<>>]
Blank == [key |-> "", val |-> "", toks |-> <<>>]

Str(n) == Numerals[n + 1]

\* Point line k (0-based) with w fields: x = k, y = k+1, z = k+2, then a
\* stray field
PointLine(k, w) ==
  Data(SubSeq(<<Str(k), Str(k + 1), Str(k + 2), "99">>, 1, w))

PointSection(n, w, declared) ==
  <<KV("NPOIN", declared)>> \o [k \in 1..n |-> PointLine(k - 1, w)]

PointVariants ==
  {PointSection(n, w, Str(n)) : n \in 0..MaxPts, w \in 1..4}
  \cup {PointSection(2, 3, d) : d \in {"x", "3", "-1", "1"}}
  \cup {SubSeq(PointSection(2, 3, "2"), 2, 3)}
  \cup {PointSection(1, 3, "2") \o <<Data(<<"1", "x", "3">>)>>}

BasePoints == PointSection(MaxPts, 3, Str(MaxPts))

\* Element lines of volume sections: recognized types with the expected
\* node count, with a stray trailing field, with too few fields, and an
\* unrecognized type code
VolPool ==
  << <<"5", "0", "1", "2">>,
     <<"9", "0", "1", "2", "3", "99">>,
     <<"7", "0", "1">>,
     <<"9", "0", "1">>,
     <<"10", "0", "1", "2", "3">>,
     <<"3", "0", "1", "2">>,
     <<"12", "0", "1", "2", "3", "0", "1", "2", "3", "7">>,
     <<"13", "0", "1", "2", "3", "0", "1">>,
     <<"14", "0", "1", "2", "3", "0">>,
     <<"6", "1">> >>

\* Element lines of markers
MarkPool ==
  << <<"3", "0", "1">>,
     <<"5", "2", "0", "1">>,
     <<"7", "0", "1">>,
     <<"3", "2", "1", "7">>,
     <<"3", "3">>,
     <<"9", "1", "3", "2", "0">>,
     <<"9", "3", "2", "1", "0", "99">>,
     <<"5", "-1", "0", "3">>,
     <<"12", "0">>,
     <<"3", "3", "0", "2">> >>

\* len lines of pool from position s on, cyclically
Window(pool, s, len) ==
  [j \in 1..len |-> pool[((s + j - 2) % Len(pool)) + 1]]

ElemLines(elems) == [j \in 1..Len(elems) |-> Data(elems[j])]

VolVariants ==
  {<<>>}
  \cup {<<KV("NELEM", Str(len))>> \o ElemLines(Window(VolPool, s, len)) :
          s \in 1..Len(VolPool), len \in 0..MaxElems}
  \cup {<<KV("NELEM", d)>> \o ElemLines(Window(VolPool, 1, 1)) :
          d \in {"x", "2", "-1", "0"}}
  \cup {<<KV("NELEM", "1"), Data(<<"5", "0", "x", "2">>)>>}

BaseVolume == <<KV("NELEM", "2")>> \o ElemLines(Window(VolPool, 1, 2))

TagNames == <<"wall", "far", "sym", "inlet", "outlet">>

\* The tag of marker j under tag pattern t: 1 all distinct, 2 all the same,
\* 3 alternating between two tags
Tag(t, j) ==
  IF t = 1 THEN TagNames[j]
  ELSE IF t = 2 THEN TagNames[1]
  ELSE TagNames[((j - 1) % 2) + 1]

\* Markers j .. m of a marker section: marker j holds
\* (len + j - 1) % (MaxElems + 1) lines of MarkPool from s + 3 (j - 1) on
RECURSIVE MarkerLines(_, _, _, _, _)
MarkerLines(j, m, s, len, t) ==
  IF j > m THEN <<>>
  ELSE LET n == (len + j - 1) % (MaxElems + 1)
       IN  <<KV("MARKER_TAG", Tag(t, j)), KV("MARKER_ELEMS", Str(n))>>
           \o ElemLines(Window(MarkPool, s + 3 * (j - 1), n))
           \o MarkerLines(j + 1, m, s, len, t)

MarkerSection(m, s, len, t) ==
  <<KV("NMARK", Str(m))>> \o MarkerLines(1, m, s, len, t)

MarkVariantsOf(S) ==
  {MarkerSection(m, s, len, t) :
     m \in 0..MaxMarkers, s \in S, len \in 0..MaxElems, t \in 1..3}

\* Marker sections that do not parse: no NMARK line, a count that is no
\* number, more markers or elements declared than lines, a tag line
\* without "=", a field that is no number
BadMarkVariants ==
  { Tail(MarkerSection(1, 1, 1, 1)),
    <<KV("NMARK", "x")>> \o Tail(MarkerSection(1, 1, 1, 1)),
    <<KV("NMARK", "2")>> \o Tail(MarkerSection(1, 1, 1, 1)),
    <<KV("NMARK", "1"), KV("MARKER_TAG", "wall"), KV("MARKER_ELEMS", "2"),
      Data(<<"3", "0", "1">>)>>,
    <<KV("NMARK", "1"), KV("MARKER_TAG", "wall"), KV("MARKER_ELEMS", "y")>>,
    <<KV("NMARK", "1"), Data(<<"3", "0", "1">>), KV("MARKER_ELEMS", "0")>>,
    <<KV("NMARK", "1"), KV("MARKER_TAG", "wall"), KV("MARKER_ELEMS", "1"),
      Data(<<"3", "0", "z">>)>>,
    <<KV("NMARK", "1"), KV("MARKER_TAG", "wall")>> }

BaseMarkers == MarkerSection(MaxMarkers, 1, 1, 1)

HeaderVariants ==
  { <<Comment, KV("NDIME", "2")>>,
    <<Comment, KV("NDIME", "3")>>,
    <<Comment>>,
    <<KV("NDIME", "x")>> }

GoodHeaders == {<<Comment, KV("NDIME", "2")>>, <<Comment, KV("NDIME", "3")>>}

MeshFile(h, p, e, m) == h \o <<Blank>> \o p \o e \o <<Comment>> \o m

\* The 3D file whose marker holds a triangle on points 0, 1, 2 and a quad
\* on points 10 .. 13
ScenarioFile ==
  MeshFile(<<KV("NDIME", "3")>>, PointSection(14, 3, "14"), <<>>,
           <<KV("NMARK", "1"), KV("MARKER_TAG", "wall"),
             KV("MARKER_ELEMS", "2"),
             Data(<<"5", "0", "1", "2">>),
             Data(<<"9", "10", "11", "12", "13">>)>>)

\* The files the functions are applied to: every section varies while
\* the other two keep their base form
FnFiles ==
  {MeshFile(h, p, BaseVolume, BaseMarkers) :
     h \in HeaderVariants, p \in PointVariants}
  \cup {MeshFile(h, BasePoints, e, BaseMarkers) :
          h \in HeaderVariants, e \in VolVariants}
  \cup {MeshFile(h, BasePoints, BaseVolume, m) :
          h \in HeaderVariants,
          m \in MarkVariantsOf(1..Len(MarkPool)) \cup BadMarkVariants}
  \cup {ScenarioFile}

\* The files the reader object is pointed at
DiskFiles ==
  {MeshFile(h, BasePoints, BaseVolume, MarkerSection(m, s, len, t)) :
     h \in GoodHeaders, m \in 0..MaxMarkers, s \in {1, 5},
     len \in {1, MaxElems}, t \in 1..2}
  \cup {MeshFile(h, BasePoints, <<>>, BaseMarkers) : h \in HeaderVariants}
  \cup {MeshFile(<<KV("NDIME", "2")>>, BasePoints, BaseVolume,
                 Tail(MarkerSection(1, 1, 1, 1)))}
  \cup {MeshFile(<<KV("NDIME", "3")>>, BasePoints, BaseVolume,
                 MarkerSection(1, 7, 1, 1))}

\* The file on disk is rewritten (by whoever owns it) while the reader is
\* not pointed at it
WriteFile(f) ==
  /\ filename = ""
  /\ file' = f
  /\ UNCHANGED <<filename, out0, out1, ret, res, cm, pc>>

---------------------------------------------------------------------------
(* The reader object: Spec *)

FileNames == {"", "mesh.su2"}

NotRun == Raise("not run")

NoCall == [fn |-> "", marker |-> 0, out |-> NoGrid]

Init ==
  /\ filename = ""
  /\ out0 = EmptyGrid
  /\ out1 = <<>>
  /\ ret = "none"
  /\ file \in DiskFiles
  /\ res = NotRun
  /\ cm = NoCall
  /\ pc = "object"

Next ==
  \/ \E fname \in FileNames : SetFileName(fname)
  \/ \E f \in DiskFiles : WriteFile(f)
  \/ RequestData

Spec == Init /\ [][Next]_vars

---------------------------------------------------------------------------
(* The functions applied to a file: SpecFn *)

FnInit ==
  /\ filename = ""
  /\ out0 = EmptyGrid
  /\ out1 = <<>>
  /\ ret = "none"
  /\ file \in FnFiles
  /\ res = NotRun
  /\ cm = NoCall
  /\ pc = "init"

ReadStep ==
  /\ pc = "init"
  /\ res' = read_su2(file)
  /\ pc' = "read"
  /\ UNCHANGED <<filename, out0, out1, ret, file, cm>>

SurfaceStep(j) ==
  /\ pc = "read"
  /\ res.err = ""
  /\ j \in 1..Len(res.markers)
  /\ cm' = [fn |-> "surface", marker |-> j,
            out |-> build_surface_compacted(res.pts, res.markers[j].elems)]
  /\ pc' = "compacted"
  /\ UNCHANGED <<filename, out0, out1, ret, file, res>>

Boundary2dStep(j) ==
  /\ pc = "read"
  /\ res.err = ""
  /\ j \in 1..Len(res.markers)
  /\ cm' = [fn |-> "boundary2d", marker |-> j,
            out |-> build_boundary_compacted_2d(res.pts, res.markers[j].elems)]
  /\ pc' = "compacted"
  /\ UNCHANGED <<filename, out0, out1, ret, file, res>>

FnNext ==
  \/ ReadStep
  \/ \E j \in 1..MaxMarkers : SurfaceStep(j)
  \/ \E j \in 1..MaxMarkers : Boundary2dStep(j)

SpecFn == FnInit /\ [][FnNext]_vars

---------------------------------------------------------------------------
(* What the claims say, stated on the file and on the functions' inputs *)

IsContent(l) == l.key # "%" /\ (l.key # "" \/ l.toks # <<>>)

\* The lines of the file that are neither blank nor comments
ContentLines == SelectSeq(file, IsContent)

HasSection(key) == \E j \in 1..Len(ContentLines) : ContentLines[j].key = key

\* The position (1-based) of the first line "key= ..."
SectionAt(key) ==
  CHOOSE j \in 1..Len(ContentLines) :
     /\ ContentLines[j].key = key
     /\ \A i \in 1..(j - 1) : ContentLines[i].key # key

Ints(toks) == [c \in 1..Len(toks) |-> int(toks[c])]

\* The count a section declares and the lines that follow its header
Declared(key) == int(ContentLines[SectionAt(key)].val)

SectionRow(key, k) == ContentLines[SectionAt(key) + k].toks

ExpectedNodes(t) ==
  CASE t = 3 -> 2 [] t = 5 -> 3 [] t = 9 -> 4 [] t = 10 -> 4
    [] t = 12 -> 8 [] t = 13 -> 6 [] t = 14 -> 5

Recognized == {3, 5, 9, 10, 12, 13, 14}

\* The elements a compactor is said to keep, and the node indices it is
\* said to use of each
Eligible(fn, e) ==
  IF fn = "surface" THEN e[1] \in {5, 9} ELSE e[1] = 3 /\ Len(e) >= 3

NodesOf(fn, e) ==
  IF fn = "surface" THEN [c \in 1..(Len(e) - 1) |-> e[c + 1]]
  ELSE <<e[2], e[3]>>

IsEligible(e) == Eligible(cm.fn, e)

\* The input of the compactor call cm records
CallElems == res.markers[cm.marker].elems

KeptElems == SelectSeq(CallElems, IsEligible)

UsedIndices ==
  UNION {Range(NodesOf(cm.fn, KeptElems[j])) : j \in 1..Len(KeptElems)}

Rank(U, u) == Cardinality({v \in U : v < u})

GlobalPoint(u) ==
  IF u >= 0 THEN res.pts[u + 1] ELSE res.pts[Len(res.pts) + u + 1]

Produced == pc = "compacted" /\ cm.out.status = "grid"

\* C1: the mesh a compactor produces has one local point per global index
\* its kept elements reference, in ascending order of the global index;
\* every local index is in [0, number of local points) and is the rank of
\* the global index it replaces. The marker [[5,0,1,2],[9,10,11,12,13]]
\* gives the points 0,1,2,10,11,12,13 and the cells [0,1,2], [3,4,5,6].
C1_CompactRanks ==
  Produced =>
    /\ Len(cm.out.points) = Cardinality(UsedIndices)
    /\ \A u \in UsedIndices :
         cm.out.points[Rank(UsedIndices, u) + 1] = GlobalPoint(u)
    /\ Len(cm.out.cells) = Len(KeptElems)
    /\ \A j \in 1..Len(cm.out.cells) :
         LET conn == cm.out.cells[j].conn
             old  == NodesOf(cm.fn, KeptElems[j])
         IN  /\ Len(conn) = Len(old)
             /\ \A c \in 1..Len(conn) :
                  /\ conn[c] \in 0..(Len(cm.out.points) - 1)
                  /\ conn[c] = Rank(UsedIndices, old[c])
    /\ (file = ScenarioFile /\ cm.fn = "surface") =>
         /\ [r \in 1..Len(cm.out.points) |-> cm.out.points[r][1]]
              = <<0, 1, 2, 10, 11, 12, 13>>
         /\ [j \in 1..Len(cm.out.cells) |-> cm.out.cells[j].conn]
              = << <<0, 1, 2>>, <<3, 4, 5, 6>> >>

\* The surface compactor made the mesh of the scenario marker: the quad on
\* points 10 .. 13 became the cell [3, 4, 5, 6]
C1_Witness ==
  /\ Produced
  /\ file = ScenarioFile
  /\ cm.fn = "surface"
  /\ Len(cm.out.points) = 7
  /\ cm.out.cells[2].conn = <<3, 4, 5, 6>>
  /\ NodesOf(cm.fn, KeptElems[2]) = <<10, 11, 12, 13>>

\* The r-th (0-based) smallest of the used global indices
UsedAt(r) == CHOOSE u \in UsedIndices : Rank(UsedIndices, u) = r

\* C2: replacing every local index of a produced mesh by the global index
\* at that position of the ascending used-index sequence gives back, cell
\* by cell and in order, the node indices of the kept input elements.
C2_RoundTrip ==
  Produced =>
    [j \in 1..Len(cm.out.cells) |->
       [c \in 1..Len(cm.out.cells[j].conn) |->
          UsedAt(cm.out.cells[j].conn[c])]]
    = [j \in 1..Len(KeptElems) |-> NodesOf(cm.fn, KeptElems[j])]

\* A mesh of the 2D compactor, renumbered, whose input had other elements
C2_Witness ==
  /\ Produced
  /\ cm.fn = "boundary2d"
  /\ Len(CallElems) > Len(cm.out.cells)
  /\ \E j \in 1..Len(cm.out.cells) :
       cm.out.cells[j].conn # NodesOf(cm.fn, KeptElems[j])

---------------------------------------------------------------------------
(* Claims about read_su2 *)

ReadOk == pc = "read" /\ res.err = ""

\* The lines of the NELEM section with a recognized type code, as integers
IsRecognized(e) == e[1] \in Recognized

VolumeRows ==
  IF ~HasSection("NELEM") \/ Declared("NELEM") < 0 THEN <<>>
  ELSE [k \in 1..Declared("NELEM") |-> Ints(SectionRow("NELEM", k))]

RecognizedRows == SelectSeq(VolumeRows, IsRecognized)

AfterType(e) == [c \in 1..(Len(e) - 1) |-> e[c + 1]]

IsPrefix(a, b) == Len(a) <= Len(b) /\ \A c \in 1..Len(a) : a[c] = b[c]

\* C3 (as claimed): every kept volume element has, when NDIME = 2, exactly
\* the expected node count of its type code, and when NDIME = 3 every
\* integer after the type code.
C3_VolumeNodeCounts ==
  ReadOk =>
    /\ Len(res.vol_conns) = Len(RecognizedRows)
    /\ \A k \in 1..Len(res.vol_conns) :
         IF res.ndime = 2
         THEN /\ Len(res.vol_conns[k]) = ExpectedNodes(res.vol_ctypes[k])
              /\ IsPrefix(res.vol_conns[k], AfterType(RecognizedRows[k]))
         ELSE res.vol_conns[k] = AfterType(RecognizedRows[k])

\* C4: the volume cell types are the recognized type codes of the NELEM
\* lines, in file order, lines of any other type code being skipped; the
\* connectivity list has the same length, entry k taken from the same line
\* as cell type k.
C4_VolumeTypes ==
  ReadOk =>
    /\ \A k \in 1..Len(res.vol_ctypes) : res.vol_ctypes[k] \in Recognized
    /\ Len(res.vol_conns) = Len(res.vol_ctypes)
    /\ res.vol_ctypes = [k \in 1..Len(RecognizedRows) |-> RecognizedRows[k][1]]
    /\ \A k \in 1..Len(res.vol_conns) :
         IsPrefix(res.vol_conns[k], AfterType(RecognizedRows[k]))

\* A read that skipped a line of unrecognized type and kept the next one
C4_Witness ==
  /\ ReadOk
  /\ Len(VolumeRows) >= 2
  /\ VolumeRows[1][1] \notin Recognized
  /\ Len(res.vol_ctypes) = 1
  /\ res.vol_ctypes[1] = VolumeRows[2][1]

\* The file with one more line "key= 0" at its end: with an empty section
\* `key` when it has none
WithEmpty(key) == file \o <<KV(key, "0")>>

NothingReturned ==
  /\ res.pts = <<>>
  /\ res.vol_conns = <<>>
  /\ res.vol_ctypes = <<>>
  /\ res.markers = <<>>

Mandatory == {"NDIME", "NPOIN", "NMARK"}

\* C5 (as claimed): a file without an NDIME, NPOIN or NMARK line makes
\* read_su2 raise an error that names a section the file lacks, and
\* return nothing.
C5_ErrorNamesSection ==
  (pc = "read" /\ \E key \in Mandatory : ~HasSection(key)) =>
    /\ NothingReturned
    /\ \E key \in Mandatory : ~HasSection(key) /\ res.err = key \o " not found"

\* C5 (amended): a file without an NDIME, NPOIN or NMARK line makes
\* read_su2 raise and return nothing. The error names NDIME when NDIME is
\* missing, NPOIN when the NDIME line reads as a number and NPOIN is
\* missing, NMARK when NMARK is missing and is all the file lacks (with an
\* NMARK line added the file reads); otherwise it is the error of the
\* record that failed earlier. A file that lacks only NELEM reads, and
\* every file without NELEM that reads has an empty volume element set.
C5_MissingSections ==
  pc = "read" =>
    /\ (\E key \in Mandatory : ~HasSection(key))
         => res.err # "" /\ NothingReturned
    /\ ~HasSection("NDIME") => res.err = "NDIME not found"
    /\ ( /\ HasSection("NDIME")
         /\ IsNumeral(ContentLines[SectionAt("NDIME")].val)
         /\ ~HasSection("NPOIN") ) => res.err = "NPOIN not found"
    /\ (~HasSection("NMARK") /\ read_su2(WithEmpty("NMARK")).err = "")
         => res.err = "NMARK not found"
    /\ ~HasSection("NELEM") =>
         /\ read_su2(WithEmpty("NELEM")).err = "" => res.err = ""
         /\ res.err = "" => res.vol_conns = <<>> /\ res.vol_ctypes = <<>>

\* A file that lacks only its NMARK line, read
C5_Witness ==
  /\ pc = "read"
  /\ ~HasSection("NMARK")
  /\ HasSection("NDIME") /\ HasSection("NPOIN") /\ HasSection("NELEM")
  /\ res.err = "NMARK not found"

\* A file without NELEM, read
C5_WitnessNoElem ==
  /\ ReadOk
  /\ ~HasSection("NELEM")
  /\ Len(res.pts) > 0
  /\ res.markers # <<>>

\* C6 (as claimed): read_su2 returns no record shorter than its kind asks
\* for: no point read from a line of fewer than NDIME fields, no volume
\* element and no marker element of a recognized type code with fewer node
\* indices than the expected node count of the code.
C6_NoShortRecords ==
  ReadOk =>
    /\ \A k \in 1..Len(res.pts) :
         Len(SectionRow("NPOIN", k)) >= res.ndime
    /\ \A k \in 1..Len(res.vol_conns) :
         Len(res.vol_conns[k]) >= ExpectedNodes(res.vol_ctypes[k])
    /\ \A j \in 1..Len(res.markers) :
         \A k \in 1..Len(res.markers[j].elems) :
            LET e == res.markers[j].elems[k]
            IN  e[1] \in Recognized => Len(e) - 1 >= ExpectedNodes(e[1])

\* C8: a file that reads gives NPOIN points; point k holds the first NDIME
\* fields of line k after the NPOIN line (whenever the line has that
\* many), and its z coordinate is 0 when NDIME = 2.
C8_Points ==
  ReadOk =>
    /\ Len(res.pts) = Declared("NPOIN")
    /\ \A k \in 1..Len(res.pts) :
         /\ Len(res.pts[k]) = 3
         /\ res.ndime = 2 => res.pts[k][3] = 0
         /\ Len(SectionRow("NPOIN", k)) >= res.ndime =>
              \A c \in 1..res.ndime :
                 res.pts[k][c] = int(SectionRow("NPOIN", k)[c])

\* A 2D file whose point lines carry a third field, read
C8_Witness ==
  /\ ReadOk
  /\ res.ndime = 2
  /\ Len(res.pts) >= 2
  /\ \A k \in 1..Len(res.pts) :
       /\ Len(SectionRow("NPOIN", k)) >= 3
       /\ int(SectionRow("NPOIN", k)[3]) # 0
       /\ res.pts[k][3] = 0

---------------------------------------------------------------------------
(* Claims about the markers and the reader object *)

\* The markers the file lists from line p on, as written: tag and element
\* lines (as integers), `left` of them
RECURSIVE RawMarkersFrom(_, _)
RawMarkersFrom(p, left) ==
  IF left <= 0 THEN <<>>
  ELSE LET ne == int(ContentLines[p + 1].val)
           n  == IF ne < 0 THEN 0 ELSE ne
       IN  <<[tag   |-> ContentLines[p].val,
              elems |-> [k \in 1..n |-> Ints(ContentLines[p + 1 + k].toks)]]>>
           \o RawMarkersFrom(p + 2 + n, left - 1)

RawMarkers == RawMarkersFrom(SectionAt("NMARK") + 1, Declared("NMARK"))

\* An element a boundary mesh is built from: a line with two node indices
\* (NDIME = 2), a triangle or quad (otherwise)
Usable(ndime, e) ==
  IF ndime = 2 THEN e[1] = 3 /\ Len(e) >= 3 ELSE e[1] \in {5, 9}

HasUsable(m) ==
  \E k \in 1..Len(m.elems) : Usable(Declared("NDIME"), m.elems[k])

NamesOf(blocks) == [j \in 1..Len(blocks) |-> blocks[j].name]

MarkerNames(ms) == [j \in 1..Len(ms) |-> "marker:" \o ms[j].tag]

LastElems(ms, j) ==
  LET last == CHOOSE i \in 1..Len(ms) :
                 /\ ms[i].tag = ms[j].tag
                 /\ \A h \in (i + 1)..Len(ms) : ms[h].tag # ms[j].tag
  IN  ms[last].elems

\* Marker j of ms is the first of its tag
FirstOfTag(ms, j) == \A i \in 1..(j - 1) : ms[i].tag # ms[j].tag

RECURSIVE BlockTagsFrom(_, _, _)
BlockTagsFrom(ms, ndime, j) ==
  IF j > Len(ms) THEN <<>>
  ELSE (IF /\ FirstOfTag(ms, j)
           /\ \E k \in 1..Len(LastElems(ms, j)) :
                Usable(ndime, LastElems(ms, j)[k])
        THEN <<"marker:" \o ms[j].tag>> ELSE <<>>)
       \o BlockTagsFrom(ms, ndime, j + 1)

C9_Outputs ==
  [][RequestData =>
       \A r \in {read_su2(file)} :
       /\ filename = "" => ret' = "0" /\ out0' = out0 /\ out1' = out1
       /\ (filename # "" /\ r.err # "") =>
            ret' = r.err /\ out0' = out0 /\ out1' = out1
       /\ ret' = "1" =>
            /\ filename # "" /\ r.err = ""
            /\ out0'.points = r.pts
            /\ [k \in 1..Len(out0'.cells) |-> out0'.cells[k].conn] = r.vol_conns
            /\ [k \in 1..Len(out0'.cells) |-> out0'.cells[k].ctype] = r.vol_ctypes
            /\ Len(out1') <= Len(r.markers)
            /\ \A j \in 1..Len(out1') :
                 \E i \in 1..Len(r.markers) :
                    /\ out1'[j].name = "marker:" \o r.markers[i].tag
                    /\ out1'[j].grid =
                         MarkerSurface(r.ndime, r.pts, r.markers[i].elems)]_vars

\* A RequestData failed on the file now on disk and the outputs of an
\* earlier run are still there
C9_Witness ==
  /\ filename # ""
  /\ ret = "NMARK not found"
  /\ read_su2(file).err = ret
  /\ out1 # <<>>
  /\ out0.cells # <<>>

---------------------------------------------------------------------------
(* Claims about the two stages that filter elements *)

\* A marker element line as read_su2 is said to store it
Stored(ndime, e) ==
  IF ndime = 2 /\ e[1] \in Recognized
  THEN [c \in 1..(IF Len(e) < 1 + ExpectedNodes(e[1])
                  THEN Len(e) ELSE 1 + ExpectedNodes(e[1])) |-> e[c]]
  ELSE e

\* read_su2 returns, for every tag, every element line of the marker the
\* file lists last under the tag, whatever its type code, cut when
\* NDIME = 2 and the code is recognized to the expected node count
MarkersStored(ms) ==
  /\ \A j \in 1..Len(ms) :
       \E i \in 1..Len(res.markers) : res.markers[i].tag = ms[j].tag
  /\ \A i \in 1..Len(res.markers) :
       \E j \in 1..Len(ms) :
          /\ ms[j].tag = res.markers[i].tag
          /\ res.markers[i].elems =
               [k \in 1..Len(LastElems(ms, j)) |->
                  Stored(res.ndime, LastElems(ms, j)[k])]

IsSurface(e) == e[1] \in {5, 9}

IsLine(e) == e[1] = 3

IsLineOfTwo(e) == e[1] = 3 /\ Len(e) >= 3

Called == pc = "compacted" /\ cm.out.status # "IndexError"

\* The cells of the mesh cm holds are the elements `kept`, in order,
\* cell j with the node indices nodes[j] (none kept: no mesh)
CellsAre(kept, nodes) ==
  /\ (cm.out.status = "None") = (kept = <<>>)
  /\ Len(cm.out.cells) = Len(kept)
  /\ \A j \in 1..Len(cm.out.cells) :
       /\ cm.out.cells[j].ctype = kept[j][1]
       /\ [c \in 1..Len(cm.out.cells[j].conn) |->
             UsedAt(cm.out.cells[j].conn[c])] = nodes[j]

\* The triangles and quads of the call's input, and all their node indices
Surfaces == SelectSeq(CallElems, IsSurface)

SurfaceNodes == [j \in 1..Len(Surfaces) |-> AfterType(Surfaces[j])]

\* The lines of two node indices or more, and their first two
LinesOfTwo == SelectSeq(CallElems, IsLineOfTwo)

LineNodes == [j \in 1..Len(LinesOfTwo) |-> <<LinesOfTwo[j][2], LinesOfTwo[j][3]>>]

===========================================================================
